---- MODULE Spec2Model ----
(***************************************************************************)
(* DocSearch: the IndexStore (src/DocSearch/src/indexer.py) and the        *)
(* SearchEngine (src/DocSearch/src/searcher.py) over a changing directory  *)
(* of text files and one persisted snapshot file.                          *)
(*                                                                         *)
(* Python dicts keep insertion order, and the code's results depend on it  *)
(* (iteration of postings, of docs, of Counter), so every dict is a        *)
(* sequence of [k, v] entries with distinct keys.                          *)
(***************************************************************************)
EXTENDS Integers, Sequences, FiniteSets, TLC

VARIABLES
    dirExists,  \* data_dir exists on disk
    fs,         \* the files of data_dir: name -> [exists, mtime, text]
    clock,      \* the wall clock; a write stamps the file's mtime with it
    file,       \* index_file on disk: [kind, payload]
    index,      \* IndexStore.index (whatever json.loads gave, or the skeleton)
    loaded,     \* IndexStore._loaded
    pc,         \* where the running build_index is: idle, save_open, save_write
    ret,        \* the outcome of the call made by the step just taken
    quiet,      \* history: the last build_index returned and neither the
                \* corpus nor the snapshot file was touched from outside since
    os,         \* OpenSearch: the data directory, the cluster, the signature
                \* cache and the running Indexer.build_index
    ck          \* VectorSearch: the running chunk_text call

vars == <<dirExists, fs, clock, file, index, loaded, pc, ret, quiet, os, ck>>

----------------------------------------------------------------------------
(* Bounds *)

\* the number of file writes a behaviour may hold (each one ticks the clock)
MaxClock == 1
\* the largest limit handed to search (the smallest is -1)
MaxLimit == 2

----------------------------------------------------------------------------
(* The corpus *)

\* data_dir entries in sorted() order; glob("*.txt") keeps the .txt ones
NameOrder == <<"a.txt", "b.txt", "c.md">>
FileNames == {NameOrder[i] : i \in 1..Len(NameOrder)}
IsTxt(name) == name \in {"a.txt", "b.txt"}

\* file contents, as the segments jieba.lcut cuts them into
Texts ==
    { <<"cat", " ", "dog">>,
      <<"dog", " ", "bird">>,
      <<"Dog", ",", "dog">>,
      <<>> }

NoFile == [exists |-> FALSE, mtime |-> 0, text |-> <<>>]
OldFile(text) == [exists |-> TRUE, mtime |-> 0, text |-> text]

\* the directory as the program may find it when it starts: not there, or
\* holding a: "cat dog", b: "dog bird", written before the clock started
EmptyCorpus == [n \in FileNames |-> NoFile]
TwoDocCorpus ==
    [n \in FileNames |->
        CASE n = "a.txt" -> OldFile(<<"cat", " ", "dog">>)
          [] n = "b.txt" -> OldFile(<<"dog", " ", "bird">>)
          [] OTHER -> NoFile]

----------------------------------------------------------------------------
(* Ordered dicts *)

Entry(k, v) == [k |-> k, v |-> v]
Has(d, k) == \E i \in 1..Len(d) : d[i].k = k
Get(d, k) == d[CHOOSE i \in 1..Len(d) : d[i].k = k].v
Put(d, k, v) ==
    IF Has(d, k)
    THEN [i \in 1..Len(d) |-> IF d[i].k = k THEN Entry(k, v) ELSE d[i]]
    ELSE Append(d, Entry(k, v))
Pop(d, k) == SelectSeq(d, LAMBDA e : e.k # k)
Keys(d) == {d[i].k : i \in 1..Len(d)}
\* the dict as a map, order forgotten
AsMap(d) == {<<d[i].k, d[i].v>> : i \in 1..Len(d)}

RECURSIVE SumValues(_)
SumValues(d) == IF d = <<>> THEN 0 ELSE d[1].v + SumValues(Tail(d))

----------------------------------------------------------------------------
(* tokenize *)

\* re.sub(r"[^\w\s]", " ", text): punctuation becomes a space
Cleaned(seg) == IF seg = "," THEN " " ELSE seg
\* token.strip().lower()
StripLower(seg) ==
    CASE seg = " " -> ""
      [] seg = "Dog" -> "dog"
      [] OTHER -> seg

RECURSIVE tokenize(_)
tokenize(text) ==
    IF text = <<>> THEN <<>>
    ELSE LET token == StripLower(Cleaned(Head(text)))
         IN  IF token = "" THEN tokenize(Tail(text))
             ELSE <<token>> \o tokenize(Tail(text))

\* collections.Counter(tokens): counts, keyed in order of first occurrence
RECURSIVE CounterFrom(_, _)
CounterFrom(freq, tokens) ==
    IF tokens = <<>> THEN freq
    ELSE LET t == Head(tokens)
         IN  CounterFrom(Put(freq, t, (IF Has(freq, t) THEN Get(freq, t) ELSE 0) + 1),
                         Tail(tokens))
Counter(tokens) == CounterFrom(<<>>, tokens)

----------------------------------------------------------------------------
(* The index *)

\* updated_at: None is 0; the clock starts at 1
_default_index ==
    [shape |-> "index", version |-> 1, updated_at |-> 0,
     docs |-> <<>>, inverted_index |-> <<>>]

\* what json.loads gives for a file that parses but is no index object:
\* "[]" (falsy) and an object without the docs key (truthy)
NotAnIndex(shape) ==
    [shape |-> shape, version |-> 0, updated_at |-> 0,
     docs |-> <<>>, inverted_index |-> <<>>]
Truthy(idx) == idx.shape # "emptylist"

PathOf(doc_id) == <<"data", doc_id>>

\* for token, count in freq.items(): setdefault(token, {})[doc_id] = count
RECURSIVE AddPostings(_, _, _)
AddPostings(inv, doc_id, freq) ==
    IF freq = <<>> THEN inv
    ELSE LET token == freq[1].k
             postings == IF Has(inv, token) THEN Get(inv, token) ELSE <<>>
         IN  AddPostings(Put(inv, token, Put(postings, doc_id, freq[1].v)),
                         doc_id, Tail(freq))

\* length counts the distinct tokens: len(freq) for sum(freq.values())
_index_single_file_DistinctLength(idx, doc_id, mtime, text) ==
    LET freq == Counter(tokenize(text))
    IN  [idx EXCEPT
            !.inverted_index = AddPostings(idx.inverted_index, doc_id, freq),
            !.docs = Put(idx.docs, doc_id,
                         [path |-> PathOf(doc_id), mtime |-> mtime,
                          length |-> Len(freq), tokens |-> freq])]

_index_single_file(idx, doc_id, mtime, text) ==
    LET freq == Counter(tokenize(text))
        length == SumValues(freq)
    IN  [idx EXCEPT
            !.inverted_index = AddPostings(idx.inverted_index, doc_id, freq),
            !.docs = Put(idx.docs, doc_id,
                         [path |-> PathOf(doc_id), mtime |-> mtime,
                          length |-> length, tokens |-> freq])]

\* an emptied postings map is left under its term
RECURSIVE DropPostings_NoPurge(_, _, _)
DropPostings_NoPurge(inv, doc_id, tokens) ==
    IF tokens = <<>> THEN inv
    ELSE LET token == tokens[1].k
         IN  IF ~Has(inv, token) \/ Get(inv, token) = <<>>
             THEN DropPostings_NoPurge(inv, doc_id, Tail(tokens))
             ELSE DropPostings_NoPurge(Put(inv, token, Pop(Get(inv, token), doc_id)),
                                       doc_id, Tail(tokens))

\* for token, count in tokens.items(): drop doc_id, purge an emptied term
RECURSIVE DropPostings(_, _, _)
DropPostings(inv, doc_id, tokens) ==
    IF tokens = <<>> THEN inv
    ELSE LET token == tokens[1].k
         IN  IF ~Has(inv, token) \/ Get(inv, token) = <<>>
             THEN DropPostings(inv, doc_id, Tail(tokens))
             ELSE LET postings == Pop(Get(inv, token), doc_id)
                  IN  DropPostings(IF postings = <<>> THEN Pop(inv, token)
                                   ELSE Put(inv, token, postings),
                                   doc_id, Tail(tokens))

\* the Document record is dropped, its postings are left behind
_remove_doc_KeepsPostings(idx, doc_id) ==
    IF ~Has(idx.docs, doc_id) THEN idx
    ELSE [idx EXCEPT !.docs = Pop(idx.docs, doc_id)]

_remove_doc(idx, doc_id) ==
    IF ~Has(idx.docs, doc_id) THEN idx
    ELSE [idx EXCEPT
            !.inverted_index =
                DropPostings(idx.inverted_index, doc_id, Get(idx.docs, doc_id).tokens),
            !.docs = Pop(idx.docs, doc_id)]

----------------------------------------------------------------------------
(* The snapshot file *)

File(kind, payload) == [kind |-> kind, payload |-> payload]
NoPayload == _default_index
\* a file that json.loads rejects: zero bytes, or text that is not JSON
\* (a snapshot cut short among them)
Unparseable == {"empty", "notjson"}
\* what somebody else may leave at index_file
ForeignFiles ==
    { File("missing", NoPayload), File("notjson", NoPayload),
      File("badutf8", NoPayload),
      File("json", NotAnIndex("emptylist")), File("json", NotAnIndex("otherdict")) }

\* load(): [raised, index, loaded] from the store's fields and the file
load(idx, isLoaded, f) ==
    IF isLoaded /\ Truthy(idx)
    THEN [raised |-> FALSE, index |-> idx, loaded |-> isLoaded]
    ELSE IF f.kind = "missing"
    THEN [raised |-> FALSE, index |-> _default_index, loaded |-> TRUE]
    ELSE IF f.kind = "badutf8"
    \* read_text raises UnicodeDecodeError, which is no JSONDecodeError
    THEN [raised |-> TRUE, index |-> idx, loaded |-> isLoaded]
    ELSE IF f.kind \in Unparseable
    THEN [raised |-> FALSE, index |-> _default_index, loaded |-> TRUE]
    ELSE [raised |-> FALSE, index |-> f.payload, loaded |-> TRUE]

\* int() of the counters; keys and their order are kept
RECURSIVE IntCounts(_)
IntCounts(d) ==
    IF d = <<>> THEN <<>>
    ELSE <<Entry(d[1].k, d[1].v + 0)>> \o IntCounts(Tail(d))

\* the postings are left out of what is stored
_index_for_storage_NoPostings(idx) ==
    [shape |-> "index", version |-> idx.version, updated_at |-> idx.updated_at,
     docs |-> idx.docs, inverted_index |-> <<>>]

_index_for_storage(idx) ==
    [shape |-> "index",
     version |-> idx.version,
     updated_at |-> idx.updated_at,
     docs |-> [i \in 1..Len(idx.docs) |->
                 Entry(idx.docs[i].k,
                       [path |-> idx.docs[i].v.path,
                        mtime |-> idx.docs[i].v.mtime,
                        length |-> idx.docs[i].v.length + 0,
                        tokens |-> IntCounts(idx.docs[i].v.tokens)])],
     inverted_index |-> [i \in 1..Len(idx.inverted_index) |->
                 Entry(idx.inverted_index[i].k, IntCounts(idx.inverted_index[i].v))]]

----------------------------------------------------------------------------
(* build_index *)

\* {path.name: (path, mtime) for path in sorted(data_dir.glob("*.txt"))}
RECURSIVE GlobFrom(_, _)
GlobFrom(files, i) ==
    IF i > Len(NameOrder) THEN <<>>
    ELSE LET name == NameOrder[i]
         IN  (IF IsTxt(name) /\ files[name].exists
              THEN <<Entry(name, files[name])>> ELSE <<>>) \o GlobFrom(files, i + 1)
\* the glob matches every file, whatever its suffix
current_files_AnySuffix(files) ==
    LET names == SelectSeq(NameOrder, LAMBDA n : files[n].exists)
    IN  [i \in 1..Len(names) |-> Entry(names[i], files[names[i]])]
current_files(files) == GlobFrom(files, 1)

\* only the first deleted document is removed
RemoveAll_FirstOnly(idx, to_remove) ==
    IF to_remove = <<>> THEN idx ELSE _remove_doc(idx, Head(to_remove))

RECURSIVE RemoveAll(_, _)
RemoveAll(idx, to_remove) ==
    IF to_remove = <<>> THEN idx
    ELSE RemoveAll(_remove_doc(idx, Head(to_remove)), Tail(to_remove))

\* the test turned round: the documents still in the directory are picked
to_remove_Present(idx, cur) ==
    LET ids == [i \in 1..Len(idx.docs) |-> idx.docs[i].k]
    IN  SelectSeq(ids, LAMBDA d : Has(cur, d))

to_remove(idx, cur) ==
    LET ids == [i \in 1..Len(idx.docs) |-> idx.docs[i].k]
    IN  SelectSeq(ids, LAMBDA d : ~Has(cur, d))

\* the documents are removed and not counted
_remove_deleted_docs_NoCount(idx, cur) ==
    [index |-> RemoveAll(idx, to_remove(idx, cur)), removed |-> 0]

\* _remove_deleted_docs: [index, removed]
_remove_deleted_docs(idx, cur) ==
    [index |-> RemoveAll(idx, to_remove(idx, cur)),
     removed |-> Len(to_remove(idx, cur))]

\* the comparison turned round: > for <
SameMtime_Inverted(stored, mtime) == stored # mtime

\* abs(doc_meta.get("mtime", 0) - mtime) < 1e-6, on whole seconds
SameMtime(stored, mtime) == stored = mtime

\* a changed file is re-indexed without removing its stale record first
IndexOne_NoRemove(st, doc_id, f) ==
    IF Has(st.index.docs, doc_id) /\ SameMtime(Get(st.index.docs, doc_id).mtime, f.mtime)
    THEN st
    ELSE IF Has(st.index.docs, doc_id)
    THEN [index |-> _index_single_file(st.index, doc_id, f.mtime, f.text),
          added |-> st.added, updated |-> st.updated + 1]
    ELSE [index |-> _index_single_file(st.index, doc_id, f.mtime, f.text),
          added |-> st.added + 1, updated |-> st.updated]

\* one turn of the loop over current_files.items()
IndexOne(st, doc_id, f) ==
    IF Has(st.index.docs, doc_id) /\ SameMtime(Get(st.index.docs, doc_id).mtime, f.mtime)
    THEN st
    ELSE IF Has(st.index.docs, doc_id)
    THEN [index |-> _index_single_file(_remove_doc(st.index, doc_id), doc_id, f.mtime, f.text),
          added |-> st.added, updated |-> st.updated + 1]
    ELSE [index |-> _index_single_file(st.index, doc_id, f.mtime, f.text),
          added |-> st.added + 1, updated |-> st.updated]

RECURSIVE IndexLoop(_, _)
IndexLoop(st, cur) ==
    IF cur = <<>> THEN st
    ELSE IndexLoop(IndexOne(st, cur[1].k, cur[1].v), Tail(cur))

NoRet ==
    [op |-> "none", raised |-> FALSE, full |-> FALSE,
     added |-> 0, updated |-> 0, removed |-> 0, total_docs |-> 0, vocab_size |-> 0,
     mkdir |-> FALSE, query |-> <<>>, limit |-> 0, results |-> <<>>]

\* the loaded index is kept although a full rebuild was asked for
StartIndex_NoReset(full_rebuild, idx) == idx

\* if full_rebuild: self.index = _default_index()
StartIndex(full_rebuild, idx) == IF full_rebuild THEN _default_index ELSE idx

\* build_index up to the call of save(): load, diff, re-index, stamp
BuildIndex(full_rebuild) ==
    /\ pc = "idle"
    /\ \E ld \in {load(index, loaded, file)} :
       \E start \in {StartIndex(full_rebuild, ld.index)}, cur \in {current_files(fs)} :
       \E gone \in {_remove_deleted_docs(start, cur)} :
       \E done \in {IndexLoop([index |-> gone.index, added |-> 0, updated |-> 0], cur)} :
           IF ld.raised
           THEN /\ ret' = [NoRet EXCEPT !.op = "build_index", !.raised = TRUE,
                                        !.full = full_rebuild]
                /\ UNCHANGED <<index, loaded, dirExists, pc>>
           ELSE IF start.shape # "index"
           \* self.index["docs"] raises TypeError / KeyError
           THEN /\ ret' = [NoRet EXCEPT !.op = "build_index", !.raised = TRUE,
                                        !.full = full_rebuild, !.mkdir = ~dirExists]
                /\ index' = start
                /\ loaded' = TRUE
                /\ dirExists' = TRUE
                /\ pc' = pc
           ELSE /\ index' = [done.index EXCEPT !.updated_at = clock]
                /\ loaded' = TRUE
                /\ dirExists' = TRUE
                /\ pc' = "save_open"
                /\ ret' = [NoRet EXCEPT
                             !.op = "build_index", !.full = full_rebuild,
                             !.mkdir = ~dirExists,
                             !.added = done.added, !.updated = done.updated,
                             !.removed = gone.removed,
                             !.total_docs = Len(done.index.docs),
                             !.vocab_size = Len(done.index.inverted_index)]
    /\ UNCHANGED <<fs, clock, file, quiet>>
    /\ UNCHANGED <<os, ck>>

\* save(): write_text opens index_file for writing, which empties it ...
SaveOpen ==
    /\ pc = "save_open"
    /\ file' = File("empty", NoPayload)
    /\ pc' = "save_write"
    /\ quiet' = FALSE
    /\ UNCHANGED <<dirExists, fs, clock, index, loaded, ret>>
    /\ UNCHANGED <<os, ck>>

\* ... then writes the payload and closes; build_index returns its counters
SaveWrite ==
    /\ pc = "save_write"
    /\ file' = File("json", _index_for_storage(index))
    /\ pc' = "idle"
    /\ quiet' = TRUE
    /\ UNCHANGED <<dirExists, fs, clock, index, loaded, ret>>
    /\ UNCHANGED <<os, ck>>

\* the file as a write that did not finish leaves it
Torn == {File("empty", NoPayload), File("notjson", NoPayload)}

\* save() raises OSError (mkdir or open fails: file untouched; write fails: torn)
SaveFail ==
    /\ pc \in {"save_open", "save_write"}
    /\ IF pc = "save_open" THEN file' = file ELSE file' \in Torn
    /\ pc' = "idle"
    /\ ret' = [ret EXCEPT !.raised = TRUE]
    /\ quiet' = FALSE
    /\ UNCHANGED <<dirExists, fs, clock, index, loaded>>
    /\ UNCHANGED <<os, ck>>

\* the process is killed inside save(); main() is started again
Kill ==
    /\ pc \in {"save_open", "save_write"}
    /\ IF pc = "save_open" THEN file' = file ELSE file' \in Torn
    /\ pc' = "idle"
    /\ index' = _default_index
    /\ loaded' = FALSE
    /\ ret' = NoRet
    /\ quiet' = FALSE
    /\ UNCHANGED <<dirExists, fs, clock>>
    /\ UNCHANGED <<os, ck>>

\* load() called on its own
Load ==
    /\ pc = "idle"
    /\ LET ld == load(index, loaded, file)
       IN  /\ index' = ld.index
           /\ loaded' = ld.loaded
           /\ ret' = [NoRet EXCEPT !.op = "load", !.raised = ld.raised]
    /\ UNCHANGED <<dirExists, fs, clock, file, pc, quiet>>
    /\ UNCHANGED <<os, ck>>

\* main(): ensure_directories(), a fresh IndexStore
Restart ==
    /\ pc = "idle"
    /\ dirExists' = TRUE
    /\ index' = _default_index
    /\ loaded' = FALSE
    /\ ret' = NoRet
    /\ UNCHANGED <<fs, clock, file, pc, quiet>>
    /\ UNCHANGED <<os, ck>>

----------------------------------------------------------------------------
(* search *)

fuzzy_threshold == 82
fuzzy_limit == 3
\* weight = 0.8 if is_fuzzy else 1.0, in tenths
ExactWeight == 10
FuzzyWeight == 8

\* the terms one letter longer than catt
NearCatt == {"catty", "catts", "scatt"}

\* fuzz.WRatio on the tokens of the model, which for single words of
\* comparable length is 200 * lcs / (len(s) + len(t)): 100 for the same
\* string, 85.7 for cat/catt (6/7), 88.9 for catt and a term one letter
\* longer (8/9), and at most 80 (catty/catts, 8/10), so below the
\* threshold, for the other pairs
WRatio(s, t) ==
    IF s = t THEN 100
    ELSE IF {s, t} = {"cat", "catt"} THEN 86
    ELSE IF \E n \in NearCatt : {s, t} = {"catt", n} THEN 89
    ELSE 30

\* sorted(..., key=score, reverse=True), stable: an entry goes after the
\* entries scoring at least as much
RECURSIVE InsertRanked(_, _)
InsertRanked(ranked, e) ==
    IF ranked = <<>> THEN <<e>>
    ELSE IF ranked[1].v >= e.v THEN <<ranked[1]>> \o InsertRanked(Tail(ranked), e)
    ELSE <<e>> \o ranked
RECURSIVE SortedByScore(_)
SortedByScore(items) ==
    IF items = <<>> THEN <<>>
    ELSE InsertRanked(SortedByScore(SubSeq(items, 1, Len(items) - 1)), items[Len(items)])

\* items[:limit], Python's slice: a negative limit counts from the end
Slice(items, limit) ==
    IF limit >= 0
    THEN SubSeq(items, 1, IF limit < Len(items) THEN limit ELSE Len(items))
    ELSE SubSeq(items, 1, IF Len(items) + limit > 0 THEN Len(items) + limit ELSE 0)

\* every choice at or above the cutoff is returned, however many
extract_NoLimit(token, vocabulary) ==
    LET scored == [i \in 1..Len(vocabulary) |->
                      Entry(vocabulary[i], WRatio(token, vocabulary[i]))]
    IN  SortedByScore(SelectSeq(scored, LAMBDA e : e.v >= fuzzy_threshold))

\* process.extract(token, vocabulary, scorer=WRatio, limit, score_cutoff):
\* the choices scoring at least the cutoff, best first (ties in vocabulary
\* order), cut to limit
extract(token, vocabulary) ==
    LET scored == [i \in 1..Len(vocabulary) |->
                      Entry(vocabulary[i], WRatio(token, vocabulary[i]))]
        kept == SelectSeq(scored, LAMBDA e : e.v >= fuzzy_threshold)
    IN  Slice(SortedByScore(kept), fuzzy_limit)

\* the matches are thrown away: only the query's own tokens are scored
FuzzyTerms_None(token, matches) == <<>>

\* for match, _, _ in matches: the terms other than the token, marked fuzzy
RECURSIVE FuzzyTerms(_, _)
FuzzyTerms(token, matches) ==
    IF matches = <<>> THEN <<>>
    ELSE (IF matches[1].k # token THEN <<[term |-> matches[1].k, is_fuzzy |-> TRUE]>>
          ELSE <<>>) \o FuzzyTerms(token, Tail(matches))

RECURSIVE _expand_tokens(_, _)
_expand_tokens(tokens, vocabulary) ==
    IF tokens = <<>> THEN <<>>
    ELSE <<[term |-> Head(tokens), is_fuzzy |-> FALSE]>>
         \o FuzzyTerms(Head(tokens), extract(Head(tokens), vocabulary))
         \o _expand_tokens(Tail(tokens), vocabulary)

\* 1000 * ln(n), rounded
LnMilli(n) ==
    CASE n = 1 -> 0
      [] n = 2 -> 693
      [] n = 3 -> 1099
      [] n = 4 -> 1386
      [] n = 5 -> 1609
      [] OTHER -> 1792

\* the idf without its smoothing: log(doc_count / df) + 1
Idf_Unsmoothed(doc_count, df) == LnMilli(doc_count) - LnMilli(df) + 1000

\* idf = math.log((doc_count + 1) / (df + 1)) + 1, in thousandths
Idf(doc_count, df) == LnMilli(doc_count + 1) - LnMilli(df + 1) + 1000

\* scores are kept as whole numbers: score * 10 * 1000 * LengthScale, where
\* every document length of the model divides LengthScale
LengthScale == 3 * 4

\* meta.get("length", 1) or 1
LengthOr1(meta) == IF meta.length = 0 THEN 1 ELSE meta.length

\* for doc_id, tf in postings.items(): scores[doc_id] += weight * (tf / length) * idf
RECURSIVE AddScores(_, _, _, _, _)
AddScores(scores, postings, weight, idf, docs) ==
    IF postings = <<>> THEN scores
    ELSE LET doc_id == postings[1].k
             tf == postings[1].v
             length == IF Has(docs, doc_id) THEN LengthOr1(Get(docs, doc_id)) ELSE 1
             old == IF Has(scores, doc_id) THEN Get(scores, doc_id) ELSE 0
         IN  AddScores(Put(scores, doc_id, old + (weight * tf * idf * LengthScale) \div length),
                       Tail(postings), weight, idf, docs)

RECURSIVE ScoreTerms(_, _, _)
ScoreTerms(scores, expanded, idx) ==
    IF expanded = <<>> THEN scores
    ELSE LET token == expanded[1].term
             postings == IF Has(idx.inverted_index, token)
                         THEN Get(idx.inverted_index, token) ELSE <<>>
             doc_count == IF Len(idx.docs) > 1 THEN Len(idx.docs) ELSE 1
             weight == IF expanded[1].is_fuzzy THEN FuzzyWeight ELSE ExactWeight
         IN  IF postings = <<>>
             THEN ScoreTerms(scores, Tail(expanded), idx)
             ELSE ScoreTerms(AddScores(scores, postings, weight,
                                       Idf(doc_count, Len(postings)), idx.docs),
                             Tail(expanded), idx)

\* search on a loaded index: [raised, results]
search(idx, query, limit) ==
    LET tokens == tokenize(query)
        vocabulary == [i \in 1..Len(idx.inverted_index) |-> idx.inverted_index[i].k]
        expanded == _expand_tokens(tokens, vocabulary)
        ranked == SortedByScore(ScoreTerms(<<>>, expanded, idx))
    IN  IF tokens = <<>> THEN [raised |-> FALSE, results |-> <<>>]
        \* self.store.index["docs"] raises TypeError / KeyError
        ELSE IF idx.shape # "index" THEN [raised |-> TRUE, results |-> <<>>]
        ELSE IF idx.docs = <<>> THEN [raised |-> FALSE, results |-> <<>>]
        ELSE [raised |-> FALSE, results |-> Slice(ranked, limit)]

\* the queries put to search, as jieba cuts them
Queries ==
    { <<"dog">>, <<"cat">>, <<"catt">>, <<"dog", " ", "dog">>,
      <<"catt", " ", "cat">>, <<",">> }
Limits == (-1)..MaxLimit

Search(query, limit) ==
    /\ pc = "idle"
    /\ \E ld \in {load(index, loaded, file)} :
       \E out \in {search(ld.index, query, limit)} :
           /\ index' = ld.index
           /\ loaded' = ld.loaded
           /\ ret' = [NoRet EXCEPT
                        !.op = "search", !.query = query, !.limit = limit,
                        !.raised = ld.raised \/ out.raised,
                        !.results = IF ld.raised THEN <<>> ELSE out.results]
    /\ UNCHANGED <<dirExists, fs, clock, file, pc, quiet>>
    /\ UNCHANGED <<os, ck>>

\* a search asked of an installation without rapidfuzz: the import at the
\* head of searcher.py raises ModuleNotFoundError, no SearchEngine comes to
\* be and the store is not touched
SearchWithoutRapidfuzz(query, limit) ==
    /\ pc = "idle"
    /\ ret' = [NoRet EXCEPT
                 !.op = "search", !.query = query, !.limit = limit, !.raised = TRUE]
    /\ UNCHANGED <<dirExists, fs, clock, file, index, loaded, pc, quiet>>
    /\ UNCHANGED <<os, ck>>

----------------------------------------------------------------------------
(* The environment.  save() neither reads the directory nor do these steps
   read the snapshot, so a change of the directory during save() is the
   same change right after it: they are taken between calls. *)

\* a file the glob does not match is never read: it is written with no text
WriteFile(name, text) ==
    /\ pc = "idle"
    /\ clock <= MaxClock
    /\ IsTxt(name) \/ text = <<>>
    /\ clock' = clock + 1
    /\ fs' = [fs EXCEPT ![name] = [exists |-> TRUE, mtime |-> clock + 1, text |-> text]]
    /\ dirExists' = TRUE
    /\ quiet' = (quiet /\ ~IsTxt(name))
    /\ ret' = NoRet
    /\ UNCHANGED <<file, index, loaded, pc>>
    /\ UNCHANGED <<os, ck>>

DeleteFile(name) ==
    /\ pc = "idle"
    /\ fs[name].exists
    /\ fs' = [fs EXCEPT ![name] = NoFile]
    /\ quiet' = (quiet /\ ~IsTxt(name))
    /\ ret' = NoRet
    /\ UNCHANGED <<dirExists, clock, file, index, loaded, pc>>
    /\ UNCHANGED <<os, ck>>

RemoveDir ==
    /\ pc = "idle"
    /\ dirExists
    /\ dirExists' = FALSE
    /\ fs' = EmptyCorpus
    /\ quiet' = (quiet /\ \A n \in FileNames : IsTxt(n) => ~fs[n].exists)
    /\ ret' = NoRet
    /\ UNCHANGED <<clock, file, index, loaded, pc>>
    /\ UNCHANGED <<os, ck>>

ReplaceSnapshot(f) ==
    /\ pc = "idle"
    /\ file # f
    /\ file' = f
    /\ quiet' = FALSE
    /\ ret' = NoRet
    /\ UNCHANGED <<dirExists, fs, clock, index, loaded, pc>>
    /\ UNCHANGED <<os, ck>>

----------------------------------------------------------------------------
(* OpenSearch: the Indexer (src/OpenSearch/src/indexer.py) over its data
   directory, the cluster behind the client and the signature cache file.
   Its dicts are looked up by key only, so they are functions over the ids,
   with a null where a key is absent. *)

\* the number of file writes a behaviour of the Indexer may hold
MaxOsClock == 2

\* paths relative to data_dir; _discover_files keeps the .txt and .md ones
OsIds == {"n.md", "t.txt", "u.MD", "x.py"}
Discovered(id) == id \in {"n.md", "t.txt", "u.MD"}
\* file contents and their st_size: what the files hold at the start, and
\* what is written into them later
OsContents == {"x", "yy"}
Written == OsContents \ {"x"}
Size(content) == IF content = "x" THEN 1 ELSE IF content = "yy" THEN 2 ELSE 0

OsNoFile == [exists |-> FALSE, mtime |-> 0, content |-> ""]
\* f"{stat.st_mtime_ns}-{stat.st_size}"
_file_signature(f) == <<f.mtime, Size(f.content)>>
\* what dict.get gives for a missing key
NoSig == <<>>
NoSigs == [id \in OsIds |-> NoSig]

\* a document of the cluster index: _source.content and _source.modified_at
NoDoc == [present |-> FALSE, content |-> "", modified_at |-> 0]
NoDocs == [id \in OsIds |-> NoDoc]
\* the cluster: whether index_name exists, and its documents by _id
NoCluster == [exists |-> FALSE, docs |-> NoDocs]

\* the cache file: missing, the JSON _save_cache wrote, or cut short
OsCache(kind, files) == [kind |-> kind, files |-> files]
_load_cache(cache) == IF cache.kind = "json" THEN cache.files ELSE NoSigs

\* {doc_id: signature} of the discovered files
current_signatures(files) ==
    [id \in OsIds |->
        IF Discovered(id) /\ files[id].exists THEN _file_signature(files[id]) ELSE NoSig]
to_index_All(previous, current) ==
    {id \in OsIds : current[id] # NoSig}
\* the ids build_index re-indexes and deletes
to_index(previous, current) ==
    {id \in OsIds : current[id] # NoSig /\ previous[id] # current[id]}
to_delete(previous, current) ==
    {id \in OsIds : previous[id] # NoSig /\ current[id] = NoSig}

\* the bulk actions, with the content read_text gives at the time
_index_actions(ids, files) ==
    {[op |-> "index", id |-> id, content |-> files[id].content,
      modified_at |-> files[id].mtime] : id \in ids}
_delete_actions(ids) ==
    {[op |-> "delete", id |-> id, content |-> "", modified_at |-> 0] : id \in ids}

OsNoRet == [op |-> "none", raised |-> FALSE, full |-> FALSE,
            indexed |-> 0, deleted |-> 0, skipped |-> 0]

\* the Indexer between two calls: nothing of a build_index is left
OsAtRest(o) ==
    [o EXCEPT !.pc = "idle", !.full = FALSE, !.previous = NoSigs,
              !.current = NoSigs, !.actions = {}]
OsRaise(o) == [OsAtRest(o) EXCEPT !.ret = [OsNoRet EXCEPT !.op = "build_index",
                                                         !.raised = TRUE,
                                                         !.full = o.full]]

OsIdle ==
    [files |-> [id \in OsIds |-> OsNoFile], clock |-> 1,
     cluster |-> NoCluster, cache |-> OsCache("missing", NoSigs),
     pc |-> "idle", full |-> FALSE, previous |-> NoSigs, current |-> NoSigs,
     actions |-> {}, ret |-> OsNoRet]

\* a data directory that holds two notes and a script before the first call
TwoNotes ==
    [id \in OsIds |->
        IF id \in {"n.md", "t.txt", "x.py"}
        THEN [exists |-> TRUE, mtime |-> 1, content |-> "x"]
        ELSE OsNoFile]

docVars == <<dirExists, fs, clock, file, index, loaded, pc, ret, quiet>>

\* _ensure_index(recreate=full_reindex): drop the index when asked to and it
\* exists, create it when it does not exist (any more)
OsEnsureIndex(full_reindex) ==
    /\ os.pc = "idle"
    /\ os' = [os EXCEPT !.pc = "scan", !.full = full_reindex, !.ret = OsNoRet,
                        !.cluster = IF full_reindex \/ ~os.cluster.exists
                                    THEN [exists |-> TRUE, docs |-> NoDocs]
                                    ELSE os.cluster]
    /\ UNCHANGED <<docVars, ck>>

\* a client call of _ensure_index raises: indices.exists, or indices.create
\* after indices.delete went through
OsEnsureIndexFail(full_reindex) ==
    /\ os.pc = "idle"
    /\ \E dropped \in BOOLEAN :
          /\ dropped => (full_reindex /\ os.cluster.exists)
          /\ os' = [OsRaise([os EXCEPT !.full = full_reindex])
                       EXCEPT !.cluster = IF dropped THEN NoCluster ELSE os.cluster]
    /\ UNCHANGED <<docVars, ck>>

\* previous_cache and current_files
OsScan ==
    /\ os.pc = "scan"
    /\ os' = [os EXCEPT !.pc = "read",
                        !.previous = IF os.full THEN NoSigs ELSE _load_cache(os.cache),
                        !.current = current_signatures(os.files)]
    /\ UNCHANGED <<docVars, ck>>

\* actions.extend(...): every file to index is read now; a file that has
\* gone since the scan makes read_text raise
OsRead ==
    /\ os.pc = "read"
    /\ LET ids == to_index(os.previous, os.current)
           gone == to_delete(os.previous, os.current)
           actions == _index_actions(ids, os.files) \cup _delete_actions(gone)
       IN  IF \E id \in ids : ~os.files[id].exists
           THEN os' = OsRaise(os)
           ELSE os' = [os EXCEPT !.pc = IF actions = {} THEN "save" ELSE "bulk",
                                 !.actions = actions]
    /\ UNCHANGED <<docVars, ck>>

\* read_text raises on a file that is there (bytes that are not UTF-8, no
\* permission)
OsReadFail ==
    /\ os.pc = "read"
    /\ to_index(os.previous, os.current) # {}
    /\ os' = OsRaise(os)
    /\ UNCHANGED <<docVars, ck>>

\* the documents after the actions of ok went through
Applied(docs, ok) ==
    [id \in OsIds |->
        IF \E a \in ok : a.id = id /\ a.op = "index"
        THEN LET a == CHOOSE a \in ok : a.id = id /\ a.op = "index"
             IN  [present |-> TRUE, content |-> a.content, modified_at |-> a.modified_at]
        ELSE IF \E a \in ok : a.id = id /\ a.op = "delete" THEN NoDoc
        ELSE docs[id]]

\* helpers.bulk(self.client, actions): the items of ok go through, the
\* others fail (a delete of a document the index does not hold always does,
\* with 404); any failed item, or the request failing as a whole, raises
OsBulk(ok) ==
    /\ os.pc = "bulk"
    /\ ok \subseteq os.actions
    /\ \A a \in ok : a.op = "delete" => os.cluster.docs[a.id].present
    /\ LET after == [os EXCEPT !.cluster.docs = Applied(os.cluster.docs, ok)]
       IN  os' = IF ok = os.actions THEN [after EXCEPT !.pc = "save"]
                 ELSE OsRaise(after)
    /\ UNCHANGED <<docVars, ck>>

\* _save_cache(current_files) and the return of the counters
OsSaveCache ==
    /\ os.pc = "save"
    /\ os' = [OsAtRest(os) EXCEPT
                !.cache = OsCache("json", os.current),
                !.ret = [OsNoRet EXCEPT
                           !.op = "build_index", !.full = os.full,
                           !.indexed = Cardinality(to_index(os.previous, os.current)),
                           !.deleted = Cardinality(to_delete(os.previous, os.current)),
                           !.skipped = Cardinality({id \in OsIds : os.current[id] # NoSig})
                                       - Cardinality(to_index(os.previous, os.current))]]
    /\ UNCHANGED <<docVars, ck>>

\* _save_cache raises: open("w") failed and the file is as it was, or
\* json.dump was cut short after open had emptied it
OsSaveCacheFail ==
    /\ os.pc = "save"
    /\ \E cache \in {os.cache, OsCache("torn", NoSigs)} :
          os' = [OsRaise(os) EXCEPT !.cache = cache]
    /\ UNCHANGED <<docVars, ck>>

\* a file is written between two calls; every write gives a fresh
\* st_mtime_ns
OsWriteFile(id, content) ==
    /\ os.pc = "idle"
    /\ os.clock <= MaxOsClock
    /\ os' = [os EXCEPT !.clock = os.clock + 1,
                        !.files[id] = [exists |-> TRUE, mtime |-> os.clock + 1,
                                       content |-> content],
                        !.ret = OsNoRet]
    /\ UNCHANGED <<docVars, ck>>

\* a file goes between two calls, or between the scan and the reads of a
\* running build_index
OsDeleteFile(id) ==
    /\ os.pc \in {"idle", "read"}
    /\ os.files[id].exists
    /\ os' = [os EXCEPT !.files[id] = OsNoFile,
                        !.ret = IF os.pc = "idle" THEN OsNoRet ELSE os.ret]
    /\ UNCHANGED <<docVars, ck>>

----------------------------------------------------------------------------
(* VectorSearch: chunk_text (src/VectorSearch/src/indexer.py), one
   statement of its loop at a time.  A text is the sequence of its
   characters. *)

\* the largest chunk_size and chunk_overlap a DocumentIndexer is built with
MaxChunkSize == 3
MaxOverlap == 3
\* the number of chunks the list can grow to before append raises
\* MemoryError; more than a call that returns ever appends
MaxChunks == 7

\* the texts _update_file_chunks reads
ChunkTexts ==
    { <<>>,
      <<" ", "\n">>,
      <<"a", "b">>,
      <<"a", "b", "c", "d", "e">>,
      <<" ", "a", "\r", "\n", "b", "\r", "c", " ">> }

Whitespace == {" ", "\n", "\r"}

\* text.replace("\r\n", "\n")
RECURSIVE ReplaceCrLf(_)
ReplaceCrLf(text) ==
    IF text = <<>> THEN <<>>
    ELSE IF Len(text) >= 2 /\ text[1] = "\r" /\ text[2] = "\n"
    THEN <<"\n">> \o ReplaceCrLf(SubSeq(text, 3, Len(text)))
    ELSE <<text[1]>> \o ReplaceCrLf(Tail(text))

\* str.strip()
RECURSIVE Strip(_)
Strip(text) ==
    IF text = <<>> THEN <<>>
    ELSE IF text[1] \in Whitespace THEN Strip(Tail(text))
    ELSE IF text[Len(text)] \in Whitespace THEN Strip(SubSeq(text, 1, Len(text) - 1))
    ELSE text

Normalize(text) == Strip(ReplaceCrLf(text))

Min(a, b) == IF a <= b THEN a ELSE b
\* where a slice bound falls: a negative one counts from the end, and both
\* ends are clamped
SliceBound(i, length) ==
    IF i < 0 THEN (IF length + i < 0 THEN 0 ELSE length + i) ELSE Min(i, length)
\* text[start:end]
Substring(text, start, end) ==
    SubSeq(text, SliceBound(start, Len(text)) + 1, SliceBound(end, Len(text)))

\* no chunk_text call is running
CkIdle == [pc |-> "idle"]

\* chunk_text(text, chunk_size, overlap) is entered
CkCall(text, chunk_size, overlap) ==
    [pc |-> "called", text |-> text, chunk_size |-> chunk_size, overlap |-> overlap,
     normalized |-> <<>>, start |-> 0, chunks |-> <<>>]

\* normalized = ...; if not normalized: return []; chunks = []; start = 0
ChunkStart ==
    /\ ck.pc = "called"
    /\ ck' = [ck EXCEPT !.normalized = Normalize(ck.text),
                        !.pc = IF Normalize(ck.text) = <<>> THEN "returned" ELSE "loop"]
    /\ UNCHANGED <<docVars, os>>

\* one turn of the while loop, its test included
ChunkStep ==
    /\ ck.pc = "loop"
    /\ Len(ck.chunks) < MaxChunks
    /\ LET length == Len(ck.normalized)
           end == Min(ck.start + ck.chunk_size, length)
           chunks == Append(ck.chunks, Substring(ck.normalized, ck.start, end))
       IN  IF ~(ck.start < length) THEN ck' = [ck EXCEPT !.pc = "returned"]
           ELSE IF end >= length
           THEN ck' = [ck EXCEPT !.chunks = chunks, !.pc = "returned"]
           ELSE ck' = [ck EXCEPT !.chunks = chunks, !.start = end - ck.overlap]
    /\ UNCHANGED <<docVars, os>>

\* chunks.append raises MemoryError: the list has taken all there is
ChunkMemoryError ==
    /\ ck.pc = "loop"
    /\ Len(ck.chunks) = MaxChunks
    /\ ck' = [ck EXCEPT !.pc = "raised"]
    /\ UNCHANGED <<docVars, os>>

----------------------------------------------------------------------------

Init ==
    /\ fs \in {EmptyCorpus, TwoDocCorpus}
    /\ dirExists = (fs # EmptyCorpus)
    /\ clock = 1
    /\ file = File("missing", NoPayload)
    /\ index = _default_index
    /\ loaded = FALSE
    /\ pc = "idle"
    /\ ret = NoRet
    /\ quiet = FALSE
    /\ os = OsIdle
    /\ ck = CkIdle

Next ==
    \/ \E full_rebuild \in BOOLEAN : BuildIndex(full_rebuild)
    \/ SaveOpen
    \/ SaveWrite
    \/ SaveFail
    \/ Kill
    \/ Load
    \/ Restart
    \/ \E name \in FileNames, text \in Texts : WriteFile(name, text)
    \/ \E name \in FileNames : DeleteFile(name)
    \/ RemoveDir
    \/ \E f \in ForeignFiles : ReplaceSnapshot(f)

Spec == Init /\ [][Next]_vars

\* the names glob("*.txt") finds
TxtNames == {name \in FileNames : IsTxt(name)}

\* what the .txt files are rewritten with between searches: the text a.txt
\* had, a text with a token twice, the text of the terms near catt
SearchTexts ==
    { <<"cat", " ", "dog">>,
      <<"Dog", ",", "dog">>,
      <<"catty", " ", "catts", " ", "scatt">> }

\* the store kept up to date and queried, with nothing failing and nobody
\* else writing the snapshot; the files that come and go are .txt files,
\* the others being nothing to search
NextSearch ==
    \/ \E full_rebuild \in BOOLEAN : BuildIndex(full_rebuild)
    \/ SaveOpen
    \/ SaveWrite
    \/ Restart
    \/ \E name \in TxtNames, text \in SearchTexts : WriteFile(name, text)
    \/ \E name \in TxtNames : DeleteFile(name)
    \/ \E query \in Queries, limit \in Limits : Search(query, limit)

SearchSpec == Init /\ [][NextSearch]_vars

\* the store built and queried over a corpus that stays as it is, while the
\* snapshot file may be replaced from outside between two calls
NextFaultySearch ==
    \/ \E full_rebuild \in BOOLEAN : BuildIndex(full_rebuild)
    \/ SaveOpen
    \/ SaveWrite
    \/ Restart
    \/ \E query \in Queries, limit \in Limits : Search(query, limit)
    \/ \E f \in ForeignFiles : ReplaceSnapshot(f)

FaultySearchSpec == Init /\ [][NextFaultySearch]_vars

\* the program where rapidfuzz is not installed: the store, which does not
\* import it, is kept up to date, and searches are asked for
NextWithoutRapidfuzz ==
    \/ \E full_rebuild \in BOOLEAN : BuildIndex(full_rebuild)
    \/ SaveOpen
    \/ SaveWrite
    \/ Restart
    \/ \E name \in FileNames, text \in Texts : WriteFile(name, text)
    \/ \E name \in FileNames : DeleteFile(name)
    \/ \E query \in Queries, limit \in Limits : SearchWithoutRapidfuzz(query, limit)

WithoutRapidfuzzSpec == Init /\ [][NextWithoutRapidfuzz]_vars

\* the Indexer alone: the DocSearch store is not run
OpenSearchInit ==
    /\ fs = EmptyCorpus
    /\ dirExists = FALSE
    /\ clock = 1
    /\ file = File("missing", NoPayload)
    /\ index = _default_index
    /\ loaded = FALSE
    /\ pc = "idle"
    /\ ret = NoRet
    /\ quiet = FALSE
    /\ os \in {OsIdle, [OsIdle EXCEPT !.files = TwoNotes]}
    /\ ck = CkIdle

\* the files that come and go; the script stays as it is
Notes == {id \in OsIds : Discovered(id)}

NextOpenSearch ==
    \/ \E full_reindex \in BOOLEAN : OsEnsureIndex(full_reindex)
    \/ \E full_reindex \in BOOLEAN : OsEnsureIndexFail(full_reindex)
    \/ OsScan
    \/ OsRead
    \/ OsReadFail
    \/ \E ok \in SUBSET os.actions : OsBulk(ok)
    \/ OsSaveCache
    \/ OsSaveCacheFail
    \/ \E id \in Notes, content \in Written : OsWriteFile(id, content)
    \/ \E id \in Notes : OsDeleteFile(id)

OpenSearchSpec == OpenSearchInit /\ [][NextOpenSearch]_vars

\* chunk_text alone, called once with any of the inputs
ChunkInit ==
    /\ fs = EmptyCorpus
    /\ dirExists = FALSE
    /\ clock = 1
    /\ file = File("missing", NoPayload)
    /\ index = _default_index
    /\ loaded = FALSE
    /\ pc = "idle"
    /\ ret = NoRet
    /\ quiet = FALSE
    /\ os = OsIdle
    /\ \E text \in ChunkTexts, chunk_size \in 1..MaxChunkSize, overlap \in 0..MaxOverlap :
          ck = CkCall(text, chunk_size, overlap)

NextChunk == ChunkStart \/ ChunkStep \/ ChunkMemoryError

\* a call that has been entered runs its next statement
ChunkSpec == ChunkInit /\ [][NextChunk]_vars /\ WF_vars(NextChunk)

----------------------------------------------------------------------------
(* What the claims speak of *)

Docs(idx) == Keys(idx.docs)
Terms(idx) == Keys(idx.inverted_index)
\* tf of term t in the Document record of d, 0 when absent
DocCount(idx, d, t) ==
    IF Has(idx.docs, d) /\ Has(Get(idx.docs, d).tokens, t)
    THEN Get(Get(idx.docs, d).tokens, t) ELSE 0
\* the count under inverted_index[t][d], 0 when absent
PostingCount(idx, t, d) ==
    IF Has(idx.inverted_index, t) /\ Has(Get(idx.inverted_index, t), d)
    THEN Get(Get(idx.inverted_index, t), d) ELSE 0
InPostings(idx, t, d) == Has(idx.inverted_index, t) /\ Has(Get(idx.inverted_index, t), d)
InDocTokens(idx, d, t) == Has(idx.docs, d) /\ Has(Get(idx.docs, d).tokens, t)

AllTerms ==
    {"cat", "dog", "bird", "catt", "catty", "catts", "scatt", "Dog", ",", " ", ""}

\* docs and inverted_index as maps, key order forgotten at both levels
DocsAsMap(idx) ==
    {<<idx.docs[i].k, idx.docs[i].v.path, idx.docs[i].v.mtime, idx.docs[i].v.length,
       AsMap(idx.docs[i].v.tokens)>> : i \in 1..Len(idx.docs)}
InvertedAsMap(idx) ==
    {<<idx.inverted_index[i].k, AsMap(idx.inverted_index[i].v)>> :
        i \in 1..Len(idx.inverted_index)}

\* build_index has run its in-memory part without raising and is about to save
Built == pc = "save_open" /\ ret.op = "build_index" /\ ~ret.raised
\* build_index has returned its counters
Returned == pc = "idle" /\ ret.op = "build_index" /\ ~ret.raised

----------------------------------------------------------------------------
(* Claims *)

\* C1: whenever the store holds an index (so after every build_index, over
\* every history of additions, modifications, deletions and builds), d is
\* in inverted_index[t] exactly when d is in docs and t is in
\* docs[d].tokens, and then the two counts are equal.
C1_DocsAndPostingsAgree ==
    index.shape = "index" =>
        \A t \in Terms(index) \cup AllTerms, d \in Docs(index) \cup FileNames :
            /\ InPostings(index, t, d) <=> InDocTokens(index, d, t)
            /\ PostingCount(index, t, d) = DocCount(index, d, t)

\* an incremental build that updated one document and removed another has
\* returned, and documents remain
C1_Witness ==
    /\ Returned /\ ~ret.full
    /\ ret.updated >= 1 /\ ret.removed >= 1
    /\ \E t \in AllTerms, d \in FileNames : InPostings(index, t, d)

\* C2: no term of inverted_index has an empty postings map, and a term that
\* no document of docs contains any more is not a key of inverted_index.
C2_NoEmptyPostings ==
    index.shape = "index" =>
        \A i \in 1..Len(index.inverted_index) :
            /\ index.inverted_index[i].v # <<>>
            /\ \E d \in Docs(index) : InDocTokens(index, d, index.inverted_index[i].k)

\* an incremental build removed a.txt, the only document holding "cat",
\* while b.txt, which shares "dog", stays
C2_Witness ==
    /\ Returned /\ ~ret.full /\ ret.removed = 1
    /\ Docs(index) = {"b.txt"}
    /\ Get(index.docs, "b.txt").mtime = 0
    /\ ~Has(index.inverted_index, "cat")
    /\ Has(index.inverted_index, "dog")

\* C3: for every document of docs, the counts of its tokens sum to its length.
C3_LengthIsSumOfCounts ==
    index.shape = "index" =>
        \A i \in 1..Len(index.docs) :
            SumValues(index.docs[i].v.tokens) = index.docs[i].v.length

\* a build has indexed a document in which a token occurs twice
C3_Witness ==
    /\ Returned
    /\ \E i \in 1..Len(index.docs) :
          /\ index.docs[i].v.length = 2
          /\ \E j \in 1..Len(index.docs[i].v.tokens) : index.docs[i].v.tokens[j].v = 2

\* C4: an incremental build that follows a returned build with the corpus
\* untouched in between counts nothing added, updated or removed, and leaves
\* docs and inverted_index as the first build saved them (and as they stand
\* in memory, when the store is still loaded).
C4_SecondBuildIsNoOp ==
    [][(quiet /\ BuildIndex(FALSE)) =>
        /\ ~ret'.raised
        /\ ret'.added = 0 /\ ret'.updated = 0 /\ ret'.removed = 0
        /\ index'.docs = file.payload.docs
        /\ index'.inverted_index = file.payload.inverted_index
        /\ loaded => /\ index'.docs = index.docs
                     /\ index'.inverted_index = index.inverted_index]_vars

\* the second incremental build has run over an unchanged corpus of two files
C4_Witness ==
    /\ Built /\ ~ret.full /\ quiet
    /\ ret.total_docs = 2

\* C5: a full rebuild that follows a returned build with the corpus untouched
\* in between yields docs and inverted_index equal, as maps, to the state
\* the earlier builds had kept.
C5_FullRebuildEqualsIncremental ==
    [][(quiet /\ BuildIndex(TRUE)) =>
        /\ ~ret'.raised
        /\ DocsAsMap(index') = DocsAsMap(file.payload)
        /\ InvertedAsMap(index') = InvertedAsMap(file.payload)
        /\ loaded => /\ DocsAsMap(index') = DocsAsMap(index)
                     /\ InvertedAsMap(index') = InvertedAsMap(index)]_vars

\* the full rebuild has run over an unchanged corpus whose incrementally
\* kept docs were in another key order (a.txt was re-indexed after b.txt)
C5_Witness ==
    /\ Built /\ ret.full /\ quiet
    /\ file.kind = "json"
    /\ index.docs # file.payload.docs
    /\ Len(index.docs) = 2

\* the tokens of a text and how often each occurs, counted position by position
TokenSet(text) == {tokenize(text)[i] : i \in 1..Len(tokenize(text))}
Occurrences(text, t) == Cardinality({i \in 1..Len(tokenize(text)) : tokenize(text)[i] = t})

\* d stands in docs and in the postings exactly as file f would be indexed
IndexedFrom(idx, d, f) ==
    /\ Has(idx.docs, d)
    /\ Get(idx.docs, d).path = PathOf(d)
    /\ Get(idx.docs, d).mtime = f.mtime
    /\ Get(idx.docs, d).length = Len(tokenize(f.text))
    /\ AsMap(Get(idx.docs, d).tokens) = {<<t, Occurrences(f.text, t)>> : t \in TokenSet(f.text)}
    /\ \A t \in Terms(idx) \cup AllTerms : PostingCount(idx, t, d) = Occurrences(f.text, t)

\* d's record and postings are in after what they were in before
Untouched(before, after, d) ==
    /\ Has(after.docs, d)
    /\ Get(after.docs, d) = Get(before.docs, d)
    /\ \A t \in Terms(before) \cup Terms(after) :
          PostingCount(after, t, d) = PostingCount(before, t, d)

\* C6: an incremental build removes every doc id that docs held and the
\* directory no longer does: it leaves docs and every postings map, a term
\* that only such documents held (and no indexed file holds) leaves
\* inverted_index, the documents that stay and were not re-indexed keep
\* their postings, and removed counts exactly these doc ids.
C6_DeletedDocsRemoved ==
    [][(BuildIndex(FALSE) /\ ~ret'.raised) =>
        LET before == load(index, loaded, file).index
            cur == current_files(fs)
            gone == Docs(before) \ Keys(cur)
            kept == {d \in Docs(before) \cap Keys(cur) :
                        Get(before.docs, d).mtime = Get(cur, d).mtime}
        IN  /\ ret'.removed = Cardinality(gone)
            /\ \A d \in gone :
                  /\ d \notin Docs(index')
                  /\ \A t \in Terms(index') \cup Terms(before) : ~InPostings(index', t, d)
            /\ \A t \in Terms(before) :
                  (/\ \A d \in Docs(before) : InDocTokens(before, d, t) => d \in gone
                   /\ \A d \in Keys(cur) : t \notin TokenSet(Get(cur, d).text))
                  => t \notin Terms(index')
            /\ \A d \in kept : Untouched(before, index', d)]_vars

\* the incremental build has removed a.txt and left b.txt: "cat" is gone,
\* "dog" holds b.txt alone
C6_Witness ==
    /\ Built /\ ~ret.full /\ ret.removed = 1
    /\ file.kind = "json" /\ Docs(file.payload) = {"a.txt", "b.txt"}
    /\ Docs(index) = {"b.txt"}
    /\ ~Has(index.inverted_index, "cat")
    /\ AsMap(Get(index.inverted_index, "dog")) = {<<"b.txt", 1>>}

\* C7: build_index treats each discovered file in exactly one way.  Not in
\* docs (as they stand once a full rebuild has emptied them): indexed from
\* its content and counted in added.  In docs with another mtime: counted in
\* updated, and its record and its postings are those of its current
\* content, nothing stale left.  In docs with the same mtime: record and
\* postings untouched, counted in neither.
C7_AddedUpdatedSkipped ==
    [][\A full_rebuild \in BOOLEAN :
        (BuildIndex(full_rebuild) /\ ~ret'.raised) =>
        LET before == IF full_rebuild THEN _default_index
                      ELSE load(index, loaded, file).index
            cur == current_files(fs)
            new == Keys(cur) \ Docs(before)
            changed == {d \in Keys(cur) \cap Docs(before) :
                           Get(before.docs, d).mtime # Get(cur, d).mtime}
            same == {d \in Keys(cur) \cap Docs(before) :
                           Get(before.docs, d).mtime = Get(cur, d).mtime}
        IN  /\ ret'.added = Cardinality(new)
            /\ ret'.updated = Cardinality(changed)
            /\ \A d \in new \cup changed : IndexedFrom(index', d, Get(cur, d))
            /\ \A d \in same : Untouched(before, index', d)]_vars

\* one file was rewritten and re-indexed while the other was skipped
C7_Witness ==
    /\ Built /\ ~ret.full
    /\ ret.updated = 1 /\ ret.added = 0 /\ ret.total_docs = 2
    /\ \E d \in Docs(index) : Get(index.docs, d).mtime = 0
    /\ \E d \in Docs(index) : Get(index.docs, d).mtime > 0

WellFormed(f) == f.kind = "json" /\ f.payload.shape = "index"

\* C8: every step of a build_index/save that found a complete snapshot on
\* disk, a failing or an interrupted step among them, leaves the persisted
\* snapshot either as it was or as the complete new snapshot.
C8_SaveIsAtomic ==
    [][(pc # "idle" /\ WellFormed(file)) =>
        (file' = file \/ file' = File("json", _index_for_storage(index)))]_vars

\* C9: load() on a fresh store whose snapshot file is missing or malformed
\* does not raise and leaves the empty skeleton, and no build_index raises
\* for what load() did.
C9_LoadNeverFails ==
    [][/\ (Load /\ ~loaded /\ ~WellFormed(file)) =>
              (~ret'.raised /\ index' = _default_index)
       /\ \A full_rebuild \in BOOLEAN : BuildIndex(full_rebuild) => ~ret'.raised]_vars

\* search has returned a list
Answered == ret.op = "search" /\ ~ret.raised

NonIncreasing(results) ==
    \A i \in 1..(Len(results) - 1) : results[i].v >= results[i + 1].v
NoRepeat(results) ==
    \A i, j \in 1..Len(results) : i # j => results[i].k # results[j].k

\* C10: whatever the query, the limit and the index, the list search
\* returns has its scores in non-increasing order, names no document twice
\* and has at most limit entries (none for a limit below 1).
C10_RankedDistinctWithinLimit ==
    Answered =>
        /\ NonIncreasing(ret.results)
        /\ NoRepeat(ret.results)
        /\ Len(ret.results) <= (IF ret.limit > 0 THEN ret.limit ELSE 0)

\* doc ids in ascending order: a.txt before b.txt before c.md, as NameOrder
\* lists them
DocIdBefore(d, e) ==
    \E i, j \in 1..Len(NameOrder) : i < j /\ NameOrder[i] = d /\ NameOrder[j] = e

\* C11: in the list search returns, documents of equal score stand in
\* ascending doc id order, whatever the order in which the documents were
\* indexed.
C11_TiesInDocIdOrder ==
    Answered =>
        \A i, j \in 1..Len(ret.results) :
            (i < j /\ ret.results[i].v = ret.results[j].v)
                => DocIdBefore(ret.results[i].k, ret.results[j].k)

\* C12: search returns the empty list and does not raise when the query
\* tokenizes to no tokens, and when docs is empty.
C12_EmptyQueryOrEmptyDocs ==
    (/\ ret.op = "search"
     /\ \/ tokenize(ret.query) = <<>>
        \/ index.shape = "index" /\ index.docs = <<>>)
        => (~ret.raised /\ ret.results = <<>>)

\* list(self.store.index["inverted_index"].keys())
Vocabulary(idx) == [i \in 1..Len(idx.inverted_index) |-> idx.inverted_index[i].k]
\* what _expand_tokens makes of a query against the index
Expanded(idx, query) == _expand_tokens(tokenize(query), Vocabulary(idx))

\* C13: the expanded term list search scores holds each (term, is_fuzzy)
\* pair once, so a token repeated in the query counts once: the query
\* "dog dog" gets the documents and scores of the query "dog".
C13_RepeatedTokenCountsOnce ==
    (Answered /\ index.docs # <<>>) =>
        /\ \A i, j \in 1..Len(Expanded(index, ret.query)) :
              i # j => Expanded(index, ret.query)[i] # Expanded(index, ret.query)[j]
        /\ ret.query = <<"dog", " ", "dog">> =>
              ret.results = search(index, <<"dog">>, ret.limit).results

\* the score a result list gives d, 0 when d is not in it
ScoreIn(results, d) ==
    IF \E i \in 1..Len(results) : results[i].k = d
    THEN results[CHOOSE i \in 1..Len(results) : results[i].k = d].v
    ELSE 0
\* the score d gets from the query made of the one token t, nothing cut off
ScoreOfToken(idx, t, d) == ScoreIn(search(idx, <<t>>, Len(idx.docs)).results, d)
RECURSIVE SumScoreOfTokens(_, _, _)
SumScoreOfTokens(idx, terms, d) ==
    IF terms = {} THEN 0
    ELSE LET t == CHOOSE x \in terms : TRUE
         IN  ScoreOfToken(idx, t, d) + SumScoreOfTokens(idx, terms \ {t}, d)

\* the vocabulary terms similar to q at or above the threshold
Similar(idx, q) == {t \in Terms(idx) : WRatio(q, t) >= fuzzy_threshold}
\* fewer than fuzzy_limit other vocabulary terms are as similar to q as t
\* is: t is among the matches kept, however ties are ordered
AmongBest(idx, q, t) ==
    /\ t \in Similar(idx, q)
    /\ Cardinality({u \in Terms(idx) \ {t} : WRatio(q, u) >= WRatio(q, t)}) < fuzzy_limit

\* search has answered the query made of the one token q, which is not in
\* the vocabulary, with a limit that cuts nothing off
AnsweredUnknownToken(q) ==
    /\ Answered /\ index.docs # <<>>
    /\ tokenize(ret.query) = <<q>>
    /\ q \notin Terms(index)
    /\ ret.limit >= Len(index.docs)

\* C14 as stated: for a query token q outside the vocabulary and every
\* vocabulary term t similar to q at or above the threshold, every document
\* containing t is in search(q), and t contributes 0.8 times what it
\* contributes to the exact query t.
C14_EverySimilarTermSurfaces ==
    \A q \in AllTerms : AnsweredUnknownToken(q) =>
        /\ \A t \in Similar(index, q), d \in Docs(index) :
              InPostings(index, t, d) => ScoreIn(ret.results, d) > 0
        /\ \A d \in Docs(index) :
              10 * ScoreIn(ret.results, d) = 8 * SumScoreOfTokens(index, Similar(index, q), d)

\* C14, amended: the same for the terms t among the fuzzy_limit vocabulary
\* terms most similar to q; and when no more than fuzzy_limit terms are
\* similar to q at all, a document's score is 0.8 times the sum of what the
\* exact queries for these terms give it, so strictly less wherever it is
\* positive.  (No vocabulary term of the model has a similar vocabulary term
\* of its own, so the exact query t scores t's contribution alone.)
C14_KeptSimilarTermSurfaces ==
    \A q \in AllTerms : AnsweredUnknownToken(q) =>
        /\ \A t \in Terms(index), d \in Docs(index) :
              (AmongBest(index, q, t) /\ InPostings(index, t, d))
                  => ScoreIn(ret.results, d) > 0
        /\ Cardinality(Similar(index, q)) <= fuzzy_limit =>
              \A d \in Docs(index) :
                  LET exact == SumScoreOfTokens(index, Similar(index, q), d)
                  IN  /\ 10 * ScoreIn(ret.results, d) = 8 * exact
                      /\ exact > 0 => ScoreIn(ret.results, d) < exact

\* "catt" was searched in an index whose vocabulary holds cat and the three
\* terms nearer to catt: the document of the three is returned, the one
\* holding cat is not
C14_Witness ==
    /\ AnsweredUnknownToken("catt")
    /\ Similar(index, "catt") = NearCatt \cup {"cat"}
    /\ \A t \in NearCatt : AmongBest(index, "catt", t)
    /\ Len(ret.results) = 1
    /\ \E d \in Docs(index) : InPostings(index, "cat", d) /\ ScoreIn(ret.results, d) = 0

\* the query's own tokens, each as an exact term
RECURSIVE ExactTerms(_)
ExactTerms(tokens) ==
    IF tokens = <<>> THEN <<>>
    ELSE <<[term |-> Head(tokens), is_fuzzy |-> FALSE]>> \o ExactTerms(Tail(tokens))
\* the ranking search gives when nothing is expanded
ExactOnly(idx, query, limit) ==
    IF tokenize(query) = <<>> \/ idx.docs = <<>> THEN <<>>
    ELSE Slice(SortedByScore(ScoreTerms(<<>>, ExactTerms(tokenize(query)), idx)), limit)

\* C15: a search asked of an index with documents where the fuzzy-matching
\* facility (rapidfuzz) is missing does not fail: it returns the ranking of
\* the exact terms alone.
C15_WorksWithoutFuzzy ==
    [][\A query \in Queries, limit \in Limits :
        (SearchWithoutRapidfuzz(query, limit) /\ index.docs # <<>>) =>
            /\ ~ret'.raised
            /\ ret'.results = ExactOnly(index, query, limit)]_vars

C17_LoadIsIdempotent ==
    [][(Load /\ loaded) => (~ret'.raised /\ index' = index /\ loaded')]_vars

\* what one expanded pair e = [term, is_fuzzy] adds to the score of d:
\* weight * (tf / max(1, length)) * (ln((N + 1) / (df + 1)) + 1), on the
\* scale of the scores (tenths of the weight, thousandths of the logarithm,
\* LengthScale-ths of tf / length), nothing when d is not in the postings
Contribution(idx, e, d) ==
    IF ~InPostings(idx, e.term, d) THEN 0
    ELSE LET weight == IF e.is_fuzzy THEN 8 ELSE 10
             tf == PostingCount(idx, e.term, d)
             stored == Get(idx.docs, d).length
             length == IF stored > 1 THEN stored ELSE 1
             N == IF Len(idx.docs) > 1 THEN Len(idx.docs) ELSE 1
             df == Len(Get(idx.inverted_index, e.term))
         IN  (weight * tf * (LnMilli(N + 1) - LnMilli(df + 1) + 1000) * LengthScale)
                 \div length
\* the contributions of the pairs expanded[1..n] to d, summed
RECURSIVE SumContributions(_, _, _, _)
SumContributions(idx, expanded, n, d) ==
    IF n = 0 THEN 0
    ELSE SumContributions(idx, expanded, n - 1, d) + Contribution(idx, expanded[n], d)
TotalContribution(idx, query, d) ==
    SumContributions(idx, Expanded(idx, query), Len(Expanded(idx, query)), d)

\* C18: the score search returns for a document is exactly the sum, over
\* the expanded (term, is_fuzzy) pairs whose postings hold the document, of
\* weight * (tf / max(1, length)) * (ln((N + 1) / (df + 1)) + 1), with weight
\* 1.0 for an exact and 0.8 for a fuzzy pair, N = max(1, number of
\* documents) and df the number of documents in the term's postings; when
\* the limit cuts nothing, the documents returned are those for which the
\* sum is not empty.
C18_ScoreIsSumOfContributions ==
    (Answered /\ index.docs # <<>>) =>
        /\ \A i \in 1..Len(ret.results) :
              ret.results[i].v = TotalContribution(index, ret.query, ret.results[i].k)
        /\ ret.limit >= Len(index.docs) =>
              \A d \in Docs(index) :
                  ScoreIn(ret.results, d) = TotalContribution(index, ret.query, d)

\* "catt cat" was searched: a document holding cat was returned with the
\* sum of a fuzzy and an exact contribution of cat as its score
C18_Witness ==
    /\ Answered /\ ret.query = <<"catt", " ", "cat">>
    /\ \E i \in 1..Len(ret.results) :
          LET d == ret.results[i].k
              fuzzy == Contribution(index, [term |-> "cat", is_fuzzy |-> TRUE], d)
              exact == Contribution(index, [term |-> "cat", is_fuzzy |-> FALSE], d)
          IN  /\ fuzzy > 0 /\ exact > fuzzy
              /\ ret.results[i].v = fuzzy + exact

\* C19: a full rebuild that returns has counted nothing updated and nothing
\* removed and every current file added, whatever the index held before,
\* and leaves docs and inverted_index as the current files alone determine
\* them: docs holds exactly the current files, each recorded and posted as
\* its content is now, and no term and no posting comes from anywhere else.
C19_FullRebuildDiscardsPrior ==
    [][(BuildIndex(TRUE) /\ ~ret'.raised) =>
        LET cur == current_files(fs)
        IN  /\ ret'.updated = 0 /\ ret'.removed = 0
            /\ ret'.added = Len(cur)
            /\ Docs(index') = Keys(cur)
            /\ \A d \in Keys(cur) : IndexedFrom(index', d, Get(cur, d))
            /\ Terms(index') = UNION {TokenSet(Get(cur, d).text) : d \in Keys(cur)}
            /\ \A t \in Terms(index'), d \in FileNames \ Keys(cur) :
                  ~InPostings(index', t, d)]_vars

\* a full rebuild has run over an index that held a document since deleted
\* and another since rewritten
C19_Witness ==
    /\ Built /\ ret.full /\ ret.added >= 1
    /\ file.kind = "json" /\ file.payload.shape = "index"
    /\ \E d \in Docs(file.payload) : d \notin Docs(index)
    /\ \E d \in Docs(file.payload) \cap Docs(index) :
          Get(file.payload.docs, d).mtime # Get(index.docs, d).mtime

\* C20: when build_index has returned, the snapshot on disk holds docs and
\* inverted_index equal to those in memory, and the returned total_docs and
\* vocab_size are the numbers of keys of docs and of inverted_index.
C20_SnapshotEqualsMemory ==
    Returned =>
        /\ file.kind = "json"
        /\ file.payload.docs = index.docs
        /\ file.payload.inverted_index = index.inverted_index
        /\ ret.total_docs = Cardinality(Docs(index))
        /\ ret.vocab_size = Cardinality(Terms(index))

\* an incremental build that re-indexed one of two documents and removed a
\* term has returned
C20_Witness ==
    /\ Returned /\ ~ret.full /\ ret.updated = 1
    /\ ret.total_docs = 2 /\ ret.vocab_size >= 1
    /\ file.kind = "json" /\ file.payload.updated_at = index.updated_at
    /\ Len(index.inverted_index) < 3

\* the query token an entry of the expanded list belongs to: the term of
\* the last exact entry at or before position i
OwnerOf(expanded, i) ==
    expanded[CHOOSE j \in 1..i :
                /\ ~expanded[j].is_fuzzy
                /\ \A k \in (j + 1)..i : expanded[k].is_fuzzy].term
\* the fuzzy entries that follow the exact entry at position j
FuzzyAfter(expanded, j) ==
    {i \in (j + 1)..Len(expanded) : \A k \in (j + 1)..i : expanded[k].is_fuzzy}

\* C21: the list _expand_tokens makes of a query holds, for each query
\* token in turn, the token itself as an exact term followed by at most
\* fuzzy_limit fuzzy terms, and every fuzzy term is a vocabulary term other
\* than the token and similar to it at or above fuzzy_threshold.
C21_ExpansionIsBounded ==
    (Answered /\ index.docs # <<>>) =>
        LET expanded == Expanded(index, ret.query)
            exact == SelectSeq(expanded, LAMBDA e : ~e.is_fuzzy)
        IN  /\ [i \in 1..Len(exact) |-> exact[i].term] = tokenize(ret.query)
            /\ expanded # <<>> => ~expanded[1].is_fuzzy
            /\ \A j \in 1..Len(expanded) :
                  ~expanded[j].is_fuzzy =>
                      Cardinality(FuzzyAfter(expanded, j)) <= fuzzy_limit
            /\ \A i \in 1..Len(expanded) :
                  expanded[i].is_fuzzy =>
                      /\ expanded[i].term \in Terms(index)
                      /\ expanded[i].term # OwnerOf(expanded, i)
                      /\ WRatio(OwnerOf(expanded, i), expanded[i].term) >= fuzzy_threshold

\* "catt" was searched where four vocabulary terms are similar enough: the
\* expanded list holds catt and three fuzzy terms, one similar term left out
C21_Witness ==
    /\ Answered /\ ret.query = <<"catt">>
    /\ Cardinality(Similar(index, "catt")) = fuzzy_limit + 1
    /\ Len(Expanded(index, ret.query)) = 1 + fuzzy_limit

----------------------------------------------------------------------------
(* OpenSearch Indexer.build_index *)

\* the signature the saved cache holds for id, if it can be read
Cached(id) == IF os.cache.kind = "json" THEN os.cache.files[id] ELSE NoSig
\* the files _discover_files finds now
CurrentFiles == {id \in OsIds : Discovered(id) /\ os.files[id].exists}
Sent(actions, op) == {a.id : a \in {b \in actions : b.op = op}}
OsReturned == os.pc = "idle" /\ os.ret.op = "build_index" /\ ~os.ret.raised

\* C22: an incremental build_index sends an index action for exactly the
\* current files whose signature the cache lacks or holds differently, and a
\* delete action for exactly the cached ids that are no longer there; a
\* full-reindex call drops the cluster index and indexes every current file;
\* a call that returns gives indexed + skipped = the number of current files
\* and deleted = the number of delete actions, and has saved the current
\* file signatures as the cache.
C22_BuildIndexSendsTheDifference ==
    [][ /\ (os.pc = "idle" /\ os'.pc = "scan" /\ os'.full) =>
              os'.cluster = [exists |-> TRUE, docs |-> NoDocs]
        /\ (os.pc = "scan" /\ os'.pc = "read") =>
              /\ \A id \in OsIds :
                    os'.current[id] = IF id \in CurrentFiles
                                      THEN _file_signature(os.files[id]) ELSE NoSig
              /\ LET current == {id \in OsIds : os'.current[id] # NoSig}
                     index_ids == to_index(os'.previous, os'.current)
                     delete_ids == to_delete(os'.previous, os'.current)
                 IN  IF os.full
                     THEN index_ids = current /\ delete_ids = {}
                     ELSE /\ index_ids = {id \in current : Cached(id) # os'.current[id]}
                          /\ delete_ids = {id \in OsIds : Cached(id) # NoSig /\ id \notin current}
        /\ (os.pc = "read" /\ os'.pc \in {"bulk", "save"}) =>
              /\ Sent(os'.actions, "index") = to_index(os.previous, os.current)
              /\ Sent(os'.actions, "delete") = to_delete(os.previous, os.current)
              /\ Cardinality(os'.actions) = Cardinality(to_index(os.previous, os.current))
                                            + Cardinality(to_delete(os.previous, os.current))
        /\ (os.pc = "save" /\ os'.pc = "idle" /\ ~os'.ret.raised) =>
              /\ os'.ret.indexed = Cardinality(Sent(os.actions, "index"))
              /\ os'.ret.deleted = Cardinality(Sent(os.actions, "delete"))
              /\ os'.ret.indexed + os'.ret.skipped
                    = Cardinality({id \in OsIds : os.current[id] # NoSig})
              /\ os'.cache = OsCache("json", os.current)
      ]_vars

\* an incremental call returned after it indexed one file, skipped one and
\* deleted one
C22_Witness ==
    /\ OsReturned /\ ~os.ret.full
    /\ os.ret.indexed = 1 /\ os.ret.skipped = 1 /\ os.ret.deleted = 1
    /\ \A id \in OsIds : Cached(id) # NoSig <=> id \in CurrentFiles

----------------------------------------------------------------------------
(* IndexStore.build_index: docs against the directory *)

\* the names of the *.txt files in the data directory
TxtFiles(files) == {name \in FileNames : IsTxt(name) /\ files[name].exists}
\* the files for which the loop of build_index takes its continue
Skipped(before, files) ==
    {d \in TxtFiles(files) \cap Docs(before) : Get(before.docs, d).mtime = files[d].mtime}

\* C23: when a build_index returns, the keys of docs are exactly the names
\* of the *.txt files in the data directory, and added + updated + the
\* number of skipped files is the number of these files; this holds from
\* the end of the indexing loop on.
C23_DocsAreTheTxtFiles ==
    /\ []((Built \/ Returned) => Docs(index) = TxtFiles(fs))
    /\ [][(pc = "idle" /\ pc' = "save_open") =>
            LET before == IF ret'.full THEN _default_index
                          ELSE load(index, loaded, file).index
            IN  /\ Docs(index') = TxtFiles(fs)
                /\ ret'.added + ret'.updated + Cardinality(Skipped(before, fs))
                      = Cardinality(TxtFiles(fs))
                /\ ret'.total_docs = Cardinality(TxtFiles(fs))]_vars

\* an incremental build_index has returned: it added one file and skipped
\* the other
C23_Witness ==
    /\ Returned /\ ~ret.full
    /\ ret.added = 1 /\ ret.updated = 0 /\ ret.removed = 0
    /\ TxtFiles(fs) = {"a.txt", "b.txt"}
    /\ Docs(index) = {"a.txt", "b.txt"}
    /\ \E d \in Docs(index) : Get(index.docs, d).mtime = 0

\* the cluster index holds id with the content the signature was taken of
Holds(id, sig) ==
    /\ os.cluster.docs[id].present
    /\ <<os.cluster.docs[id].modified_at, Size(os.cluster.docs[id].content)>> = sig

\* C24: between two build_index calls, whatever came before (calls that
\* raised at a file read or at the bulk request, full-reindex calls), every
\* file id the saved signature cache records is in the cluster index with
\* the content of that signature.  Stated where the cluster index exists,
\* that is, where no call stopped inside _ensure_index.
C24_CacheNeverAheadOfCluster ==
    (os.pc = "idle" /\ os.cluster.exists) =>
        \A id \in OsIds : Cached(id) # NoSig => Holds(id, Cached(id))

----------------------------------------------------------------------------
(* VectorSearch chunk_text *)

\* where chunk i starts if each chunk starts overlap characters before the
\* end of the one before it
RECURSIVE StartOf(_, _, _)
StartOf(chunks, overlap, i) ==
    IF i = 1 THEN 0
    ELSE StartOf(chunks, overlap, i - 1) + Len(chunks[i - 1]) - overlap

\* the chunks are those of the description: none longer than chunk_size,
\* each the piece of text at its start, the last one ending where text ends
WellChunked(chunks, text, chunk_size, overlap) ==
    /\ (chunks = <<>>) <=> (text = <<>>)
    /\ \A i \in 1..Len(chunks) :
          /\ Len(chunks[i]) <= chunk_size
          /\ StartOf(chunks, overlap, i) >= 0
          /\ chunks[i] = SubSeq(text, StartOf(chunks, overlap, i) + 1,
                                StartOf(chunks, overlap, i) + Len(chunks[i]))
    /\ chunks # <<>> =>
          StartOf(chunks, overlap, Len(chunks)) + Len(chunks[Len(chunks)]) = Len(text)

\* C25: chunk_text returns for every text, every chunk_size >= 1 and every
\* overlap >= 0; when it returns, every chunk has at most chunk_size
\* characters, each chunk after the first starts overlap characters before
\* the end of the one before it, and the chunks cover the normalized text.
C25_ChunkTextTerminates ==
    /\ (ck.pc = "called") ~> (ck.pc = "returned")
    /\ [](ck.pc = "returned" =>
            WellChunked(ck.chunks, Normalize(ck.text), ck.chunk_size, ck.overlap))

====
